---- MODULE Spec2Model ----
(***************************************************************************)
(* mopsimcbot: the simulation queue of SimcCog (cogs/simc_cog.py).         *)
(*                                                                         *)
(* The bot runs on one asyncio event loop.  Code between two awaits that   *)
(* really suspend is one atomic step; every action below is such a step.   *)
(* Real time (the 2 s poll interval, the 300 s timeout, the back-off of    *)
(* the task loop) is abstracted to nondeterministic choice.                *)
(***************************************************************************)
EXTENDS Integers, Sequences, FiniteSets, TLC

VARIABLES
    params,     \* PARAMS: parameter name -> Parameter
    text,       \* job -> the character text its command was invoked with
    hstate,     \* job -> position of its command handler (_add_to_queue)
    queue,      \* SimcCog.queue: the asyncio.Queue's items, oldest first
    current,    \* SimcCog.current
    wpc,        \* position of the queue_loop task
    procs,      \* jobs whose simc subprocess is running (executor threads)
    html,       \* out.html: the job whose subprocess wrote it last, None if absent
    event,      \* job -> SimulationRequest.event is set
    profile,    \* the text of the profile file written last (<<>>: none yet)
    jstate,     \* job -> what the worker did with it so far
    outbox,     \* messages delivered to submitters: [to, kind]
    puts,       \* history: jobs in the order queue.put accepted them
    deq,        \* history: jobs in the order queue.get returned them
    view,       \* <<status>> if the step just taken was show_queue, else <<>>
    reply,      \* <<answer>> of the command or call of the step just taken, else <<>>
    arg         \* <<input>> of the command or call of the step just taken, else <<>>

vars == <<params, text, hstate, queue, current, wpc, procs, html, event,
          profile, jstate, outbox, puts, deq, view, reply, arg>>

(***************************************************************************)
(* Bounds of the model.                                                    *)
(***************************************************************************)
MaxJobs == 3

Jobs == 1..MaxJobs

\* self.current = None; also "no such file" for out.html
None == 0

(***************************************************************************)
(* Parameter registry.                                                     *)
(* A value carries its Python type; an Optional[int] bound is <<>> (None)  *)
(* or <<n>>.                                                               *)
(***************************************************************************)
IntV(n) == [type |-> "int", val |-> n]

StrV(s) == [type |-> "str", val |-> s]

Parameter(name, value, v_min, v_max) ==
    [parameter |-> name, value |-> value, v_min |-> v_min, v_max |-> v_max]

PARAMS ==
    [html       |-> Parameter("html", StrV("out.html"), <<>>, <<>>),
     threads    |-> Parameter("threads", IntV(1), <<1>>, <<4>>),
     iterations |-> Parameter("iterations", IntV(5000), <<500>>, <<20000>>)]

ParamNames == {"html", "threads", "iterations"}

\* The outcome of a call: the object after it and the exception it raised.
Returned(self) == [self |-> self, raised |-> "none", args |-> <<>>]

Raised(self, exc, args) == [self |-> self, raised |-> exc, args |-> args]

\* Faulty variant of set_value: the range checks come after the assignment.
set_value_assign_first(self, value) ==
    IF value.type # self.value.type
    THEN Raised(self, "TypeError", <<"type_mismatch">>)
    ELSE IF value.type = "str"
    THEN Returned([self EXCEPT !.value = value])
    ELSE IF self.v_min # <<>> /\ value.val < self.v_min[1]
    THEN Raised([self EXCEPT !.value = value], "ValueError", <<"at_least", self.v_min>>)
    ELSE IF self.v_max # <<>> /\ value.val > self.v_max[1]
    THEN Raised([self EXCEPT !.value = value], "ValueError", <<"cannot_exceed", self.v_min>>)
    ELSE Returned([self EXCEPT !.value = value])

\* Faulty variant of set_value: the upper bound is not checked.
set_value_no_max(self, value) ==
    IF value.type # self.value.type
    THEN Raised(self, "TypeError", <<"type_mismatch">>)
    ELSE IF value.type = "str"
    THEN Returned([self EXCEPT !.value = value])
    ELSE IF self.v_min # <<>> /\ value.val < self.v_min[1]
    THEN Raised(self, "ValueError", <<"at_least", self.v_min>>)
    ELSE Returned([self EXCEPT !.value = value])

\* Parameter.set_value.  The "cannot exceed" message names v_min, as the code does.
set_value(self, value) ==
    IF value.type # self.value.type
    THEN Raised(self, "TypeError", <<"type_mismatch">>)
    ELSE IF value.type = "str"
    THEN Returned([self EXCEPT !.value = value])
    ELSE IF value.type = "int"
    THEN IF self.v_min # <<>> /\ value.val < self.v_min[1]
         THEN Raised(self, "ValueError", <<"at_least", self.v_min>>)
         ELSE IF self.v_max # <<>> /\ value.val > self.v_max[1]
         THEN Raised(self, "ValueError", <<"cannot_exceed", self.v_min>>)
         ELSE Returned([self EXCEPT !.value = value])
    ELSE Raised(self, "TypeError", <<"invalid_value_type">>)

\* SimcCog._set_param: the registry after the call and the message sent.
set_param(ps, param, value) ==
    IF param \notin DOMAIN ps
    THEN [params |-> ps, raised |-> "KeyError", sent |-> <<>>]
    ELSE LET r == set_value(ps[param], value)
         IN  [params |-> [ps EXCEPT ![param] = r.self],
              raised |-> "none",
              sent   |-> IF r.raised # "none"
                         THEN <<[kind |-> "error", param |-> param, args |-> r.args]>>
                         ELSE <<[kind |-> "set", param |-> param, args |-> <<value.val>>]>>]

\* The integer arguments a settings command is tried with; <<>> is "no argument".
CmdInts == {-1, 0, 1, 2, 4, 5, 499, 500, 501, 19999, 20000, 20001}

CmdArgs == {<<>>} \cup {<<n>> : n \in CmdInts}

\* "if not iterations" / "if not threads": None and 0 are falsy.
Falsy(a) == a = <<>> \/ a[1] = 0

\* The users a command comes from: in a guild (ctx.author is a Member and has
\* guild_permissions) or in a private message, administrator or not, owner or not.
Users == [guild : BOOLEAN, administrator : BOOLEAN, owner : BOOLEAN]

\* Faulty variant of admins_only: the context of the command is not looked at.
admins_only_any_context(u) ==
    u.administrator \/ u.owner

\* checks.admins_only: the predicate of the threads command.
admins_only(u) ==
    IF u.guild THEN u.administrator \/ u.owner ELSE FALSE

(***************************************************************************)
(* Character texts, as sequences of characters.                            *)
(***************************************************************************)
HttpPrefix == <<"h", "t", "t", "p">>

UrlText == <<"h", "t", "t", "p", "s", ":", "/", "/", "a">>

PlainText == <<"m", "a", "g", "e", "=", "b", "o", "b">>

\* The texts a submission is tried with: two that start with "http" (one of
\* them nothing but the prefix) and a /simc profile.
Characters == {HttpPrefix, UrlText, PlainText}

\* Faulty variant of startswith: equality instead of a prefix test.
startswith_equal(s, p) ==
    s = p

\* str.startswith
startswith(s, p) ==
    Len(s) >= Len(p) /\ SubSeq(s, 1, Len(p)) = p

(***************************************************************************)
(* SimulationRequest: display name and profile text.                       *)
(* A text is a sequence of pieces; the piece "\n" is a line break.  The    *)
(* character text is held character by character; the pieces of a header   *)
(* line are the parameter name, "=" and the printed value.                 *)
(***************************************************************************)
MaxLines == 2

NL == "\n"

\* ..wow.CLASSES: the known class tokens.  The module is not part of the
\* sources at hand; the two tokens are the class of the documented example
\* line (warrior=Thrall) and one other class of the game.
CLASSES == {<<"m", "a", "g", "e">>, <<"w", "a", "r", "r", "i", "o", "r">>}

WarriorLine ==
    <<"w", "a", "r", "r", "i", "o", "r", "=", "T", "h", "r", "a", "l", "l">>

BareClassLine == <<"w", "a", "r", "r", "i", "o", "r">>

TwoEqualsLine == <<"w", "a", "r", "r", "i", "o", "r", "=", "a", "=", "B">>

OtherLine == <<"l", "e", "v", "e", "l", "=", "9", "0">>

Lines == {PlainText, WarriorLine, BareClassLine, TwoEqualsLine, OtherLine}

\* str.join
RECURSIVE join(_, _)
join(sep, parts) ==
    IF parts = <<>> THEN <<>>
    ELSE IF Len(parts) = 1 THEN parts[1]
    ELSE parts[1] \o sep \o join(sep, Tail(parts))

\* The character texts a command is given: one to MaxLines lines.
CharacterTexts ==
    {join(<<NL>>, ls) : ls \in UNION {[1..n -> Lines] : n \in 1..MaxLines}}

AuthorNames == {<<"A", "n", "n">>}

\* The fields of a SimulationRequest that the profile and the name read.
Requests ==
    [character : CharacterTexts, scaling : BOOLEAN, author_name : AuthorNames]

\* The index of the first piece of s equal to c, 0 if there is none.
find(s, c) ==
    IF \E i \in DOMAIN s : s[i] = c
    THEN CHOOSE i \in DOMAIN s : s[i] = c /\ \A k \in 1..(i - 1) : s[k] # c
    ELSE 0

\* str.split with a one-character separator
RECURSIVE split(_, _)
split(s, sep) ==
    IF find(s, sep) = 0 THEN <<s>>
    ELSE <<SubSeq(s, 1, find(s, sep) - 1)>>
         \o split(SubSeq(s, find(s, sep) + 1, Len(s)), sep)

\* str.splitlines: no empty last line after a trailing line break
RECURSIVE splitlines(_)
splitlines(s) ==
    IF s = <<>> THEN <<>>
    ELSE IF find(s, NL) = 0 THEN <<s>>
    ELSE <<SubSeq(s, 1, find(s, NL) - 1)>>
         \o splitlines(SubSeq(s, find(s, NL) + 1, Len(s)))

LowerCase ==
    <<"a", "b", "c", "d", "e", "f", "g", "h", "i", "j", "k", "l", "m",
      "n", "o", "p", "q", "r", "s", "t", "u", "v", "w", "x", "y", "z">>

UpperCase ==
    <<"A", "B", "C", "D", "E", "F", "G", "H", "I", "J", "K", "L", "M",
      "N", "O", "P", "Q", "R", "S", "T", "U", "V", "W", "X", "Y", "Z">>

upper(c) ==
    IF \E i \in DOMAIN LowerCase : LowerCase[i] = c
    THEN UpperCase[CHOOSE i \in DOMAIN LowerCase : LowerCase[i] = c]
    ELSE c

lower(c) ==
    IF \E i \in DOMAIN UpperCase : UpperCase[i] = c
    THEN LowerCase[CHOOSE i \in DOMAIN UpperCase : UpperCase[i] = c]
    ELSE c

\* str.capitalize: first character upper case, the others lower case
capitalize(s) ==
    [i \in DOMAIN s |-> IF i = 1 THEN upper(s[i]) ELSE lower(s[i])]

\* get_character_name: the outcome is the value returned or the exception.
get_character_name(self) ==
    LET lines == splitlines(self.character)
        hits  == {i \in DOMAIN lines : \E c \in CLASSES : startswith(lines[i], c)}
    IN  IF hits = {}
        THEN [raised |-> "none", value |-> self.author_name]
        ELSE LET line  == lines[CHOOSE i \in hits : \A k \in hits : i <= k]
                 parts == split(line, "=")
             IN  IF Len(parts) < 2
                 THEN [raised |-> "IndexError", value |-> <<>>]
                 ELSE [raised |-> "none", value |-> capitalize(parts[2])]

\* str() of a parameter value
str(value) == IF value.type = "int" THEN ToString(value.val) ELSE value.val

\* Parameter.__str__
Parameter_str(self) == <<self.parameter, "=", str(self.value)>>

\* The insertion order of the PARAMS dict
ParamOrder == <<"html", "threads", "iterations">>

\* Faulty variant of get_params: the parameters are rendered sorted by name.
get_params_sorted(ps) ==
    join(<<NL>>, <<Parameter_str(ps.html), Parameter_str(ps.iterations),
                   Parameter_str(ps.threads)>>)

\* Faulty variant of get_params: the values the registry was built with.
get_params_defaults(ps) ==
    join(<<NL>>, [i \in DOMAIN ParamOrder |-> Parameter_str(PARAMS[ParamOrder[i]])])

\* _get_params
get_params(ps) ==
    join(<<NL>>, [i \in DOMAIN ParamOrder |-> Parameter_str(ps[ParamOrder[i]])])

\* make_simc_profile: the text written to the profile file
make_simc_profile(ps, scaling, character) ==
    LET header == IF scaling
                  THEN get_params(ps) \o <<NL, "calculate_scale_factors=1", NL>>
                  ELSE get_params(ps)
    IN  header \o <<NL>> \o character

(***************************************************************************)
(* asyncio.Queue (unbounded): put_nowait appends, get_nowait pops the left *)
(* end.  On a non-empty queue "await queue.get()" does not suspend, and    *)
(* "await queue.put()" never does.                                         *)
(***************************************************************************)
QueuePut(q, x) == Append(q, x)

\* Faulty variant of QueueGet: the newest item is handed out.
QueueGetNewest(q) == q[Len(q)]

QueueGet(q) == Head(q)

\* Faulty variant of QueueAfterGet: the item is read but stays in the queue.
QueueAfterGetPeek(q) == q

QueueAfterGet(q) == Tail(q)

(***************************************************************************)
(* The task loop around queue_loop (discord.ext.tasks.loop, reconnect on). *)
(* queue_loop itself catches asyncio.TimeoutError only; whatever else a    *)
(* job raises leaves the loop body.  The task loop retries the body after  *)
(* a back-off for the exception types it handles and ends the task for     *)
(* all others.  OSError is handled by every release of the library;        *)
(* discord.HTTPException by some releases only, and the repository pins    *)
(* none, so both outcomes are kept.                                        *)
(***************************************************************************)
LoopAfterEscape(exc) ==
    IF exc = "OSError" THEN {"backoff"}
    ELSE IF exc = "HTTPException" THEN {"backoff", "dead"}
    ELSE {"dead"}

\* What the expiry of "async with timeout(300)" does to the running
\* subprocesses: the await on run_in_executor is cancelled, the executor
\* thread and the subprocess it waits for are not.
ProcsAfterTimeout(ps, j) == ps

Init ==
    /\ params = PARAMS
    /\ text = [j \in Jobs |-> <<>>]
    /\ hstate = [j \in Jobs |-> "none"]
    /\ queue = <<>>
    /\ current = None
    /\ wpc = "loop"
    /\ procs = {}
    /\ html = None
    /\ event = [j \in Jobs |-> FALSE]
    /\ profile = <<>>
    /\ jstate = [j \in Jobs |-> "none"]
    /\ outbox = {}
    /\ puts = <<>>
    /\ deq = <<>>
    /\ view = <<>>
    /\ reply = <<>>
    /\ arg = <<>>

\* The step is neither a status or settings command nor a call on its own.
NoOutput == view' = <<>> /\ reply' = <<>> /\ arg' = <<>>

WorkerVars == <<queue, current, wpc, procs, html, event, profile, jstate, deq>>

(***************************************************************************)
(* Submission: the dps / scaling commands, both of which are               *)
(* _add_to_queue.  Jobs are numbered in the order of their invocation.     *)
(***************************************************************************)
\* _add_to_queue up to its first await.
add_to_queue(j, character) ==
    /\ hstate[j] = "none"
    /\ \A i \in Jobs : i < j => hstate[i] # "none"
    /\ text' = [text EXCEPT ![j] = character]
    /\ hstate' = [hstate EXCEPT ![j] =
                    IF startswith(character, HttpPrefix) THEN "rejecting" ELSE "acking"]
    /\ NoOutput
    /\ UNCHANGED <<params, outbox, puts>>
    /\ UNCHANGED WorkerVars

\* "return await ctx.send(...)" of the rejection comes back, or raises.
reject_sent(j, ok) ==
    /\ hstate[j] = "rejecting"
    /\ hstate' = [hstate EXCEPT ![j] = IF ok THEN "rejected" ELSE "rejectfailed"]
    /\ outbox' = IF ok THEN outbox \cup {[to |-> j, kind |-> "reject"]} ELSE outbox
    /\ NoOutput
    /\ UNCHANGED <<params, text, puts>>
    /\ UNCHANGED WorkerVars

\* The acknowledgement send comes back and the request is put, or the send
\* raises and the handler ends without putting.
ack_sent(j, ok) ==
    /\ hstate[j] = "acking"
    /\ IF ok
       THEN /\ hstate' = [hstate EXCEPT ![j] = "put"]
            /\ outbox' = outbox \cup {[to |-> j, kind |-> "ack"]}
            /\ queue' = QueuePut(queue, j)
            /\ puts' = Append(puts, j)
            /\ jstate' = [jstate EXCEPT ![j] = "queued"]
       ELSE /\ hstate' = [hstate EXCEPT ![j] = "ackfailed"]
            /\ UNCHANGED <<outbox, queue, puts, jstate>>
    /\ NoOutput
    /\ UNCHANGED <<params, text, current, wpc, procs, html, event, profile, deq>>

(***************************************************************************)
(* The worker: queue_loop, get_from_queue, do_sim, _send_results.          *)
(* wpc: "loop"    at the while test of queue_loop                          *)
(*      "exec"    in do_sim, awaiting run_in_executor                      *)
(*      "send"    in _send_results, awaiting channel.send                  *)
(*      "errsend" in the except clause of get_from_queue, awaiting ctx.send*)
(*      "sleep"   between two runs of the loop body                        *)
(*      "backoff" an exception left the body; the task loop will retry     *)
(*      "dead"    an exception left the body; the task has ended           *)
(***************************************************************************)
HandlerVars == <<params, text, hstate, outbox, puts>>

\* Faulty variant of event_set: the event is left as it is.
event_set_missing(ev, j) == ev

\* self.event.set(), the first statement of do_sim.
event_set(ev, j) == [ev EXCEPT ![j] = TRUE]

\* self.event.clear(), the finally clause of do_sim.
event_clear(ev, j) == [ev EXCEPT ![j] = FALSE]

\* Faulty variant of JobEnds: current is not reset on the way out.
JobEnds_current_kept(j, how) ==
    /\ event' = event_clear(event, j)
    /\ current' = current
    /\ jstate' = [jstate EXCEPT ![j] = how]

\* The finally clauses on the way out of a job: do_sim clears the event,
\* get_from_queue and queue_loop set current to None.
JobEnds(j, how) ==
    /\ event' = event_clear(event, j)
    /\ current' = None
    /\ jstate' = [jstate EXCEPT ![j] = how]

\* The body of queue_loop starts again, 2 seconds after it returned.
queue_loop_tick ==
    /\ wpc = "sleep"
    /\ wpc' = "loop"
    /\ NoOutput
    /\ UNCHANGED <<queue, current, procs, html, event, profile, jstate, deq>>
    /\ UNCHANGED HandlerVars

\* "while not self.queue.empty()" is false: the body returns.
queue_loop_returns ==
    /\ wpc = "loop"
    /\ queue = <<>>
    /\ wpc' = "sleep"
    /\ NoOutput
    /\ UNCHANGED <<queue, current, procs, html, event, profile, jstate, deq>>
    /\ UNCHANGED HandlerVars

\* get_from_queue up to the await in do_sim: the request is taken from the
\* queue, made current, its event set, its profile written (open() may
\* raise OSError) and its subprocess handed to the executor.
\* The jobs of the queue are dps jobs; the registry block of the profile
\* is the same in scaling mode.
get_from_queue(written) ==
    /\ wpc = "loop"
    /\ queue # <<>>
    /\ LET request == QueueGet(queue)
       IN  /\ queue' = QueueAfterGet(queue)
           /\ deq' = Append(deq, request)
           /\ IF written
              THEN /\ current' = request
                   /\ event' = event_set(event, request)
                   /\ profile' = make_simc_profile(params, FALSE, text[request])
                   /\ jstate' = [jstate EXCEPT ![request] = "executing"]
                   /\ procs' = procs \cup {request}
                   /\ wpc' = "exec"
              ELSE /\ JobEnds(request, "profile_failed")
                   /\ profile' = profile
                   /\ procs' = procs
                   /\ wpc' \in LoopAfterEscape("OSError")
    /\ NoOutput
    /\ UNCHANGED html
    /\ UNCHANGED HandlerVars

\* run_in_executor completes: the subprocess of the current job has exited
\* with return code rc, having written out.html or not.  rc # 0 is
\* CalledProcessError, caught in get_from_queue, which sends the error text.
\* Otherwise _send_results checks the event, opens out.html (discord.File)
\* and sends it to ctx.message.channel (send_as_dm is False).
sim_returns(rc, wrote) ==
    /\ wpc = "exec"
    /\ procs' = procs \ {current}
    /\ html' = IF wrote THEN current ELSE html
    /\ IF rc # 0
       THEN /\ event' = event_clear(event, current)
            /\ wpc' = "errsend"
            /\ UNCHANGED <<current, jstate>>
       ELSE IF ~event[current]
       THEN /\ JobEnds(current, "guard_raised")
            /\ wpc' \in LoopAfterEscape("AttributeError")
       ELSE IF html' = None
       THEN /\ JobEnds(current, "no_artifact")
            /\ wpc' \in LoopAfterEscape("OSError")
       ELSE /\ wpc' = "send"
            /\ UNCHANGED <<current, event, jstate>>
    /\ NoOutput
    /\ UNCHANGED <<queue, profile, deq>>
    /\ UNCHANGED HandlerVars

\* channel.send of the result comes back, or raises discord.HTTPException.
results_sent(ok) ==
    /\ wpc = "send"
    /\ IF ok
       THEN /\ outbox' = outbox \cup {[to |-> current, kind |-> "result"]}
            /\ JobEnds(current, "delivered")
            /\ wpc' = "loop"
       ELSE /\ outbox' = outbox
            /\ JobEnds(current, "send_failed")
            /\ wpc' \in LoopAfterEscape("HTTPException")
    /\ NoOutput
    /\ UNCHANGED <<queue, procs, html, profile, deq, params, text, hstate, puts>>

\* ctx.send of "ERROR: ..." comes back, or raises discord.HTTPException.
error_sent(ok) ==
    /\ wpc = "errsend"
    /\ IF ok
       THEN /\ outbox' = outbox \cup {[to |-> current, kind |-> "error"]}
            /\ JobEnds(current, "error_reported")
            /\ wpc' = "loop"
       ELSE /\ outbox' = outbox
            /\ JobEnds(current, "error_send_failed")
            /\ wpc' \in LoopAfterEscape("HTTPException")
    /\ NoOutput
    /\ UNCHANGED <<queue, procs, html, profile, deq, params, text, hstate, puts>>

\* timeout(300) expires while get_from_queue is suspended: the await is
\* cancelled, the finally clauses run, the context manager raises
\* asyncio.TimeoutError and queue_loop passes over it.
timeout_expires ==
    /\ wpc \in {"exec", "send", "errsend"}
    /\ procs' = ProcsAfterTimeout(procs, current)
    /\ JobEnds(current, "timed_out")
    /\ wpc' = "loop"
    /\ NoOutput
    /\ UNCHANGED <<queue, html, profile, deq>>
    /\ UNCHANGED HandlerVars

\* The task loop runs the body again after an exception it handles.
backoff_over ==
    /\ wpc = "backoff"
    /\ wpc' = "loop"
    /\ NoOutput
    /\ UNCHANGED <<queue, current, procs, html, event, profile, jstate, deq>>
    /\ UNCHANGED HandlerVars

\* A subprocess nobody awaits any more exits.
orphan_exits(j, wrote) ==
    /\ j \in procs
    /\ ~(wpc = "exec" /\ current = j)
    /\ procs' = procs \ {j}
    /\ html' = IF wrote THEN j ELSE html
    /\ NoOutput
    /\ UNCHANGED <<queue, current, wpc, event, profile, jstate, deq>>
    /\ UNCHANGED HandlerVars

(***************************************************************************)
(* The queue, iterations and threads commands.  Each runs to its send      *)
(* without suspending.                                                     *)
(***************************************************************************)
\* What show_queue puts in its message.
Status(cur, q) ==
    IF cur = None /\ q = <<>>
    THEN [empty |-> TRUE, current |-> None, pending |-> <<>>]
    ELSE [empty |-> FALSE, current |-> cur, pending |-> q]

show_queue ==
    /\ view' = <<Status(current, queue)>>
    /\ reply' = <<>>
    /\ arg' = <<>>
    /\ UNCHANGED WorkerVars
    /\ UNCHANGED HandlerVars

\* The body shared by setget_iterations and setget_threads.
setget(param, a) ==
    IF Falsy(a)
    THEN /\ reply' = <<[kind |-> "get", param |-> param,
                        args |-> <<params[param].value.val>>]>>
         /\ params' = params
    ELSE LET r == set_param(params, param, IntV(a[1]))
         IN  /\ reply' = r.sent
             /\ params' = r.params

setget_iterations(u, a) ==
    /\ setget("iterations", a)
    /\ arg' = <<[user |-> u, value |-> a]>>
    /\ view' = <<>>
    /\ UNCHANGED <<text, hstate, outbox, puts>>
    /\ UNCHANGED WorkerVars

\* admins_only fails the command before its body runs.
setget_threads(u, a) ==
    /\ IF admins_only(u)
       THEN setget("threads", a)
       ELSE /\ reply' = <<[kind |-> "check_failure", param |-> "threads", args |-> <<>>]>>
            /\ params' = params
    /\ arg' = <<[user |-> u, value |-> a]>>
    /\ view' = <<>>
    /\ UNCHANGED <<text, hstate, outbox, puts>>
    /\ UNCHANGED WorkerVars

Next ==
    \/ \E j \in Jobs, c \in Characters : add_to_queue(j, c)
    \/ \E j \in Jobs, ok \in BOOLEAN : reject_sent(j, ok)
    \/ \E j \in Jobs, ok \in BOOLEAN : ack_sent(j, ok)
    \/ queue_loop_tick
    \/ queue_loop_returns
    \/ \E written \in BOOLEAN : get_from_queue(written)
    \/ \E rc \in {0, 1}, wrote \in BOOLEAN : sim_returns(rc, wrote)
    \/ \E ok \in BOOLEAN : results_sent(ok)
    \/ \E ok \in BOOLEAN : error_sent(ok)
    \/ timeout_expires
    \/ backoff_over
    \/ \E j \in Jobs, wrote \in BOOLEAN : orphan_exits(j, wrote)
    \/ show_queue

\* The queue: submissions, the worker and the status command.
Spec == Init /\ [][Next]_vars

\* The settings commands, from any user with any argument.
NextSettings ==
    \/ \E u \in Users, a \in CmdArgs : setget_iterations(u, a)
    \/ \E u \in Users, a \in CmdArgs : setget_threads(u, a)

SpecSettings == Init /\ [][NextSettings]_vars

(***************************************************************************)
(* The queue together with the settings commands: a guild administrator    *)
(* sets iterations to 500 and threads to 4 at any moment of the worker's   *)
(* progress.                                                               *)
(***************************************************************************)
GuildAdmin == [guild |-> TRUE, administrator |-> TRUE, owner |-> FALSE]

NextDispatch ==
    \/ Next
    \/ setget_iterations(GuildAdmin, <<500>>)
    \/ setget_threads(GuildAdmin, <<4>>)

SpecDispatch == Init /\ [][NextDispatch]_vars

(***************************************************************************)
(* Parameter.set_value on its own: any parameter of the registry, any      *)
(* value of any type.                                                      *)
(***************************************************************************)
Values ==
    {IntV(n) : n \in CmdInts}
        \cup {StrV("out.html"), StrV("a.html")}
        \cup {[type |-> "bool", val |-> TRUE], [type |-> "float", val |-> 1]}

set_value_call(p, v) ==
    LET r == set_value(params[p], v)
    IN  /\ params' = [params EXCEPT ![p] = r.self]
        /\ arg' = <<v>>
        /\ reply' = <<[kind |-> r.raised, param |-> p, args |-> r.args]>>
        /\ UNCHANGED <<text, hstate, outbox, puts, view>>
        /\ UNCHANGED WorkerVars

NextSetValue == \E p \in ParamNames, v \in Values : set_value_call(p, v)

SpecSetValue == Init /\ [][NextSetValue]_vars

(***************************************************************************)
(* The methods of one SimulationRequest, called on requests of any         *)
(* character text and mode while threads and iterations are set.  A        *)
(* request exists only if its construction, which calls                    *)
(* get_character_name, has not raised.  SpecRequest calls the two methods  *)
(* that return a text, SpecProfile the one that writes the profile file    *)
(* (an open() that fails is part of get_from_queue).                       *)
(***************************************************************************)
Constructed(r) == get_character_name(r).raised = "none"

SetValues == {IntV(4), IntV(500)}

registry_set ==
    \E p \in {"threads", "iterations"}, v \in SetValues : set_value_call(p, v)

call_get_character_name(r) ==
    /\ arg' = <<r>>
    /\ reply' = <<[fn     |-> "get_character_name",
                   raised |-> get_character_name(r).raised,
                   value  |-> get_character_name(r).value]>>
    /\ view' = <<>>
    /\ UNCHANGED HandlerVars
    /\ UNCHANGED WorkerVars

call_get_params(r) ==
    /\ Constructed(r)
    /\ arg' = <<r>>
    /\ reply' = <<[fn |-> "_get_params", raised |-> "none",
                   value |-> get_params(params)]>>
    /\ view' = <<>>
    /\ UNCHANGED HandlerVars
    /\ UNCHANGED WorkerVars

call_make_simc_profile(r) ==
    /\ Constructed(r)
    /\ arg' = <<r>>
    /\ profile' = make_simc_profile(params, r.scaling, r.character)
    /\ reply' = <<[fn |-> "make_simc_profile", raised |-> "none",
                   value |-> <<>>]>>
    /\ view' = <<>>
    /\ UNCHANGED HandlerVars
    /\ UNCHANGED <<queue, current, wpc, procs, html, event, jstate, deq>>

NextRequest ==
    \/ \E r \in Requests : call_get_character_name(r)
    \/ \E r \in Requests : call_get_params(r)
    \/ registry_set

SpecRequest == Init /\ [][NextRequest]_vars

NextProfile ==
    \/ \E r \in Requests : call_make_simc_profile(r)
    \/ registry_set

SpecProfile == Init /\ [][NextProfile]_vars

(***************************************************************************)
(* Properties.                                                             *)
(***************************************************************************)
Range(q) == {q[i] : i \in DOMAIN q}

Count(x, q) == Cardinality({i \in DOMAIN q : q[i] = x})

\* The worker has left get_from_queue for job j.
Ended(j) == jstate[j] \notin {"none", "queued", "executing"}

\* Job j was put on the queue and the worker has not finished it.
Live(j) == hstate[j] = "put" /\ jstate[j] \in {"queued", "executing"}

\* C1: at any instant at most one job is between dequeued and finished, and
\* at most one simulation subprocess started by the worker is running.
C1_AtMostOneExecuting ==
    /\ Cardinality({j \in Jobs : jstate[j] = "executing"}) <= 1
    /\ Cardinality(procs) <= 1

\* C2: the jobs are dequeued in exactly the order in which they were put:
\* the dequeue history is a prefix of the put history, and the job being
\* executed is the one dequeued last.
C2_FifoDequeue ==
    /\ Len(deq) <= Len(puts)
    /\ \A i \in DOMAIN deq : deq[i] = puts[i]
    /\ current # None => (deq # <<>> /\ current = deq[Len(deq)])

\* C2 witness: two jobs were dequeued, the first of them timed out, and the
\* put order was not the order of invocation.
C2_Witness ==
    /\ Len(deq) >= 2
    /\ jstate[deq[1]] = "timed_out"
    /\ puts[1] > puts[2]

\* C3: no failure of a job halts the worker: the task running queue_loop
\* never ends.
C3_WorkerNeverHalts == wpc # "dead"

\* C4: every job the worker has finished has an outcome delivered to its
\* submitter, the result or an error message.
C4_EveryJobAnswered ==
    \A j \in Jobs :
        Ended(j) => \E k \in {"result", "error"} : [to |-> j, kind |-> k] \in outbox

\* C5: once a job has timed out its subprocess is not running any more.
C5_TimedOutProcessTerminated ==
    \A j \in Jobs : jstate[j] = "timed_out" => j \notin procs

\* What a status shows, in order.
Entries(s) == IF s.current = None THEN s.pending ELSE <<s.current>> \o s.pending

\* C6: current and the queue hold every job that was put and is not
\* finished exactly once and nothing else, in every state; and so does every
\* status message of show_queue, which shows current = A and pending = <<B>>
\* while A, put first, is executing and B, put second, waits.
C6_StatusConsistent ==
    /\ \A j \in Jobs :
        Count(j, Entries(Status(current, queue))) = IF Live(j) THEN 1 ELSE 0
    /\ view # <<>> =>
        /\ \A j \in Jobs : Count(j, Entries(view[1])) = IF Live(j) THEN 1 ELSE 0
        /\ view[1].empty <=> ~ \E j \in Jobs : Live(j)
        /\ \A j \in Jobs : jstate[j] = "executing" <=> view[1].current = j
        /\ (Len(puts) = 2 /\ jstate[puts[1]] = "executing" /\ jstate[puts[2]] = "queued")
              => (view[1].current = puts[1] /\ view[1].pending = <<puts[2]>>)

\* C6 witness: a status taken while A executes and B waits.
C6_Witness ==
    /\ view # <<>>
    /\ Len(puts) = 2
    /\ jstate[puts[1]] = "executing"
    /\ jstate[puts[2]] = "queued"
    /\ wpc = "exec"

\* C7: accepted jobs are dequeued in the order in which their commands were
\* invoked (jobs are numbered by invocation).
C7_ServicedInSubmissionOrder ==
    \A i, k \in DOMAIN deq : i < k => deq[i] < deq[k]

\* The text starts with the four characters h, t, t, p.
IsUrl(t) == Len(t) >= 4 /\ t[1] = "h" /\ t[2] = "t" /\ t[3] = "t" /\ t[4] = "p"

\* C8: a submission whose text starts with "http" never becomes a job: its
\* handler only sends the rejection, and neither the invocation nor the
\* return of that send changes the queue, current or any job.
C8_UrlRejected ==
    /\ [](\A j \in Jobs :
            (hstate[j] # "none" /\ IsUrl(text[j])) =>
                /\ hstate[j] \in {"rejecting", "rejected", "rejectfailed"}
                /\ jstate[j] = "none"
                /\ j \notin Range(queue) \cup Range(puts) \cup Range(deq)
                /\ current # j
                /\ [to |-> j, kind |-> "ack"] \notin outbox
                /\ hstate[j] = "rejected" <=> [to |-> j, kind |-> "reject"] \in outbox)
    /\ [][\A j \in Jobs :
            (hstate'[j] # hstate[j] /\ IsUrl(text'[j])) =>
                /\ hstate[j] = "none" => hstate'[j] = "rejecting"
                /\ UNCHANGED <<queue, current, jstate, puts, deq, procs>>]_vars

\* C8 witness: a URL was rejected while the worker was executing a job.
C8_Witness ==
    \E j \in Jobs :
        /\ IsUrl(text[j])
        /\ hstate[j] = "rejected"
        /\ wpc = "exec"
        /\ current # None

\* The value v is refused by the parameter p of registry ps.
TypeMismatch(ps, p, v) == v.type # ps[p].value.type

OutOfRange(ps, p, v) ==
    /\ v.type = "int"
    /\ ps[p].value.type = "int"
    /\ \/ (ps[p].v_min # <<>> /\ v.val < ps[p].v_min[1])
       \/ (ps[p].v_max # <<>> /\ v.val > ps[p].v_max[1])

\* C9: set_value with a value of another type raises the type error, with an
\* integer outside [v_min, v_max] the range error, and in both cases the
\* whole registry is as before the call.
C9_RejectedSetLeavesRegistry ==
    [][arg' # <<>> =>
        LET v == arg'[1]
            p == reply'[1].param
        IN  /\ TypeMismatch(params, p, v) =>
                (reply'[1].kind = "TypeError" /\ params' = params)
            /\ OutOfRange(params, p, v) =>
                (reply'[1].kind = "ValueError" /\ params' = params)
            /\ reply'[1].kind # "none" => params' = params]_vars

\* C9 witness: iterations, set to 500 before, has just refused 20001.
C9_Witness ==
    /\ arg = <<IntV(20001)>>
    /\ reply # <<>>
    /\ reply[1].kind = "ValueError"
    /\ reply[1].param = "iterations"
    /\ params.iterations.value = IntV(500)
    /\ params.html.value = StrV("a.html")

\* C10: every parameter keeps the type it started with, threads stays in
\* [1, 4] and iterations in [500, 20000].
C10_RegistryInvariant ==
    /\ \A p \in ParamNames : params[p].value.type = PARAMS[p].value.type
    /\ DOMAIN params = ParamNames
    /\ params.threads.value.val \in 1..4
    /\ params.iterations.value.val \in 500..20000

\* C10 witness: both settings were moved to a bound, and a command was
\* just refused.
C10_Witness ==
    /\ params.threads.value = IntV(4)
    /\ params.iterations.value = IntV(20000)
    /\ reply # <<>>
    /\ reply[1].kind = "error"

\* The step is a settings command given the integer n (its body may not
\* have run: admins_only may have refused it).
SetCommand(p, n) ==
    /\ arg' # <<>>
    /\ arg'[1].value = <<n>>
    /\ reply'[1].param = p

\* The step replaced the value of parameter p by n and said so.
SetSucceeded(p, n) ==
    /\ params' = [params EXCEPT ![p].value = IntV(n)]
    /\ reply'[1].kind = "set"

\* C11: a settings command whose body runs with an integer argument either
\* replaces the parameter by an in-range value and answers with the success
\* message, or leaves the registry as it is and answers with an error
\* message when the value is out of range.
C11_SetAlwaysAnswers ==
    [][\A p \in {"iterations", "threads"}, n \in CmdInts :
        (SetCommand(p, n) /\ reply'[1].kind # "check_failure") =>
            IF OutOfRange(params, p, IntV(n))
            THEN params' = params /\ reply'[1].kind = "error"
            ELSE SetSucceeded(p, n)]_vars

\* C15 as claimed: a threads command with an in-range value sets the
\* parameter if and only if its issuer is an administrator or the owner,
\* wherever it is issued, and changes nothing otherwise; an iterations
\* command with an in-range value sets the parameter for every user.
C15_ThreadsPrivilegedAnywhere ==
    [][\A n \in CmdInts \ {0} :
        /\ (SetCommand("threads", n) /\ ~OutOfRange(params, "threads", IntV(n))) =>
              /\ SetSucceeded("threads", n)
                    <=> (arg'[1].user.administrator \/ arg'[1].user.owner)
              /\ SetSucceeded("threads", n) \/ params' = params
        /\ (SetCommand("iterations", n) /\ ~OutOfRange(params, "iterations", IntV(n))) =>
              SetSucceeded("iterations", n)]_vars

\* C15 as amended: the same, but only an administrator or the owner issuing
\* the command in a guild sets threads; in a private message the command
\* is refused for everyone, the owner included.
C15_ThreadsPrivilegedInGuild ==
    [][\A n \in CmdInts \ {0} :
        /\ (SetCommand("threads", n) /\ ~OutOfRange(params, "threads", IntV(n))) =>
              /\ SetSucceeded("threads", n)
                    <=> (arg'[1].user.guild
                            /\ (arg'[1].user.administrator \/ arg'[1].user.owner))
              /\ SetSucceeded("threads", n) \/ params' = params
        /\ (SetCommand("iterations", n) /\ ~OutOfRange(params, "iterations", IntV(n))) =>
              SetSucceeded("iterations", n)]_vars

\* C15 witness: threads was set to 4 (by a privileged member of a guild), and
\* the owner, asking for 2 in a private message, has just been refused;
\* iterations was set by somebody.
C15_Witness ==
    /\ params.threads.value = IntV(4)
    /\ params.iterations.value = IntV(500)
    /\ arg # <<>>
    /\ arg[1].user = [guild |-> FALSE, administrator |-> FALSE, owner |-> TRUE]
    /\ arg[1].value = <<2>>
    /\ reply[1].kind = "check_failure"

\* C17: current is a job exactly while the worker is inside get_from_queue
\* for it: it is None at the while test (so before every dequeue), between
\* two runs of the loop body, during a back-off and after the task ended,
\* and it is never a job the worker has finished, however the job ended.
C17_CurrentOnlyWhileExecuting ==
    /\ wpc \in {"loop", "sleep", "backoff", "dead"} => current = None
    /\ wpc \in {"exec", "send", "errsend"} =>
          (current \in Jobs /\ jstate[current] = "executing")
    /\ \A j \in Jobs : Ended(j) => current # j

\* C17 witness: between two jobs, after one job timed out and the send of
\* another job's result failed.
C17_Witness ==
    /\ wpc = "loop"
    /\ queue # <<>>
    /\ current = None
    /\ \E i, j \in Jobs : jstate[i] = "timed_out" /\ jstate[j] = "send_failed"

\* C19: the guard of _send_results never raises: the event of the current
\* job is set whenever _send_results runs, and an event is set only for the
\* current job while it is inside do_sim.
C19_GuardNeverFires ==
    /\ \A j \in Jobs : jstate[j] # "guard_raised"
    /\ wpc = "send" => event[current]
    /\ \A j \in Jobs : event[j] => (current = j /\ wpc \in {"exec", "send"})

\* C19 witness: _send_results is sending for a job whose event is set, after
\* an earlier job timed out and another exited non-zero.
C19_Witness ==
    /\ wpc = "send"
    /\ event[current]
    /\ \E i, j \in Jobs : jstate[i] = "timed_out" /\ jstate[j] = "error_reported"

\* C18: while _send_results sends out.html for the current job, the file
\* was last written by that job's subprocess and no subprocess of another
\* job is running that could write it.
C18_ArtifactIsOwnResult ==
    wpc = "send" => (html = current /\ procs \ {current} = {})

\* The step just taken was a call of method f of a request.
IsCall(f) == reply # <<>> /\ "fn" \in DOMAIN reply[1] /\ reply[1].fn = f

\* C14: _get_params renders one key=value line per parameter in insertion
\* order (html, threads, iterations) from the values the registry holds,
\* leaves PARAMS unchanged, and two calls with no set between them return
\* the same text.
RenderedRegistry ==
    <<"html", "=", params.html.value.val, NL,
      "threads", "=", ToString(params.threads.value.val), NL,
      "iterations", "=", ToString(params.iterations.value.val)>>

C14_RenderPure ==
    /\ [](IsCall("_get_params") => reply[1].value = RenderedRegistry)
    /\ [][IsCall("_get_params")' =>
            /\ params' = params
            /\ IsCall("_get_params") => reply'[1].value = reply[1].value]_vars

C14_Witness ==
    /\ IsCall("_get_params")
    /\ params.threads.value = IntV(4)
    /\ params.iterations.value = IntV(500)
    /\ arg[1].scaling

\* C12: the profile written for a job is the rendered registry block, then
\* the line calculate_scale_factors=1 exactly if the job is in scaling mode,
\* then the character text verbatim, with exactly one blank line between
\* the header and the character text in both modes.
ExpectedHeader ==
    RenderedRegistry \o <<NL>>
        \o (IF arg[1].scaling THEN <<"calculate_scale_factors=1", NL>> ELSE <<>>)

C12_ProfileLayout ==
    IsCall("make_simc_profile") =>
        profile = ExpectedHeader \o <<NL>> \o arg[1].character

\* C13: get_character_name never raises; its result is the text after the
\* first "=" on the first line that starts with a class token, capitalized,
\* and the submitter's name if no line starts with one.
ClassLines(t) ==
    {i \in DOMAIN splitlines(t) :
        \E c \in CLASSES : \E n \in 0..Len(splitlines(t)[i]) :
            SubSeq(splitlines(t)[i], 1, n) = c}

AfterFirstEquals(line) == SubSeq(line, find(line, "=") + 1, Len(line))

ExpectedName(r) ==
    IF ClassLines(r.character) = {} THEN r.author_name
    ELSE capitalize(AfterFirstEquals(
             splitlines(r.character)[CHOOSE i \in ClassLines(r.character) :
                                        \A k \in ClassLines(r.character) : i <= k]))

C13_NameExtractionTotal ==
    IsCall("get_character_name") =>
        /\ reply[1].raised = "none"
        /\ reply[1].value = ExpectedName(arg[1])

\* C16: the header of the profile written for a job holds, for every
\* parameter, the value the registry held at the instant the job was
\* dispatched; the registry is not changed by the dispatch, and the profile
\* is written at no other moment, whatever set commands come before or after.
Dispatched == wpc = "loop" /\ wpc' = "exec"

Header(t) == SubSeq(t, 1, Len(RenderedRegistry))

C16_HeaderIsDispatchSnapshot ==
    /\ [][Dispatched => (Header(profile') = RenderedRegistry /\ params' = params)]_vars
    /\ [][profile' # profile => Dispatched]_vars

C16_Witness ==
    /\ wpc = "exec"
    /\ Header(profile) = <<"html", "=", "out.html", NL, "threads", "=", "4", NL,
                           "iterations", "=", "5000">>
    /\ params.iterations.value = IntV(500)
    /\ jstate[2] = "queued"

====
